---- MODULE Spec2Model ----
(***************************************************************************)
(* Model of docs/extras/modules/model_io/prompts/prompt_templates/         *)
(* connecting_to_a_feature_store.ipynb: four prompt-template adapters      *)
(* (Feast, Tecton, Featureform, AzureML) that look feature values up in a  *)
(* feature store and hand them to a PromptTemplate.                        *)
(*                                                                         *)
(* Text is a sequence of chunks: one chunk per literal run of the pattern  *)
(* and one chunk per substituted placeholder.  Python values are tagged    *)
(* (int, float, str) so that str() of a value is a real conversion.        *)
(***************************************************************************)
EXTENDS Integers, Sequences, FiniteSets, TLC

VARIABLES
    template,   \* notebook global `template`: <<>> when unbound, else <<pattern>>
    prompt,     \* notebook global `prompt`:   <<>> when unbound, else <<PromptTemplate>>
    classes,    \* adapter classes whose defining cell has been executed
    calls,      \* per caller: the frame of its current/last format() call
    t_prompt,   \* PromptTemplate under test (pure check of PromptTemplate.format)
    t_kwargs,   \* mapping under test
    t_out       \* outcome of t_prompt.format(**t_kwargs); status "new" before the call

vars == <<template, prompt, classes, calls, t_prompt, t_kwargs, t_out>>

-----------------------------------------------------------------------------
(* Bounds *)

\* length of the patterns drawn for the pure check of PromptTemplate.format
MaxLen == 3
\* number of fields a caller passes besides the entity identifier
MaxExtra == 1

-----------------------------------------------------------------------------
(* Python values and mappings *)

IntV(n) == [int |-> n]
\* a float, held as its number of hundredths (0.47 is FloatV(47))
FloatV(h) == [float |-> h]
StrV(s) == [str |-> s]

\* str(float): shortest repr with at least one fractional digit
FloatStr(h) ==
    LET whole == h \div 100
        frac == h % 100
    IN ToString(whole) \o "." \o
       (IF frac % 10 = 0 THEN ToString(frac \div 10)
        ELSE (IF frac < 10 THEN "0" ELSE "") \o ToString(frac))

\* format(value, "") as str.format applies it to a substituted value
Str(v) ==
    IF "int" \in DOMAIN v THEN ToString(v.int)
    ELSE IF "float" \in DOMAIN v THEN FloatStr(v.float)
    ELSE v.str

EmptyDict == [n \in {} |-> StrV("")]

\* d[k] = v
SetItem_setdefault(d, k, v) ==
    [n \in DOMAIN d \cup {k} |-> IF n \in DOMAIN d THEN d[n] ELSE v]

SetItem(d, k, v) ==
    [n \in DOMAIN d \cup {k} |-> IF n = k THEN v ELSE d[n]]

\* the mapping left by d.pop(k)
Removed(d, k) == [n \in DOMAIN d \ {k} |-> d[n]]

NoError == [type |-> "", arg |-> ""]
Error(t, a) == [type |-> t, arg |-> a]

-----------------------------------------------------------------------------
(* PromptTemplate *)

Lit(s) == [kind |-> "lit", val |-> s]
Field(n) == [kind |-> "field", val |-> n]

FieldNames(pattern) ==
    {pattern[i].val : i \in {j \in DOMAIN pattern : pattern[j].kind = "field"}}

\* PromptTemplate.from_template(template)
from_template(pattern) ==
    [template |-> pattern, input_variables |-> FieldNames(pattern)]

\* a formatter that leaves an unknown placeholder in the text
RECURSIVE vformat_lenient(_, _, _, _)
vformat_lenient(pattern, kwargs, i, acc) ==
    IF i > Len(pattern) THEN [error |-> NoError, text |-> acc]
    ELSE IF pattern[i].kind = "lit"
         THEN vformat_lenient(pattern, kwargs, i + 1, Append(acc, pattern[i].val))
    ELSE IF pattern[i].val \notin DOMAIN kwargs
         THEN [error |-> Error("KeyError", pattern[i].val), text |-> acc]
    ELSE vformat_lenient(pattern, kwargs, i + 1,
                         Append(acc, Str(kwargs[pattern[i].val])))

\* a formatter that substitutes a placeholder only where it first occurs
RECURSIVE vformat_first(_, _, _, _)
vformat_first(pattern, kwargs, i, acc) ==
    IF i > Len(pattern) THEN [error |-> NoError, text |-> acc]
    ELSE IF pattern[i].kind = "lit"
         THEN vformat_first(pattern, kwargs, i + 1, Append(acc, pattern[i].val))
    ELSE IF pattern[i].val \notin DOMAIN kwargs
         THEN [error |-> Error("KeyError", pattern[i].val), text |-> <<>>]
    ELSE IF \E j \in 1..(i - 1) : pattern[j] = pattern[i]
         THEN vformat_first(pattern, kwargs, i + 1, Append(acc, pattern[i].val))
    ELSE vformat_first(pattern, kwargs, i + 1,
                       Append(acc, Str(kwargs[pattern[i].val])))

\* the formatter: walks the pattern left to right, copies literal text, replaces
\* each placeholder by str() of its value; the first placeholder with no value
\* raises KeyError and the text built so far is dropped
RECURSIVE vformat(_, _, _, _)
vformat(pattern, kwargs, i, acc) ==
    IF i > Len(pattern) THEN [error |-> NoError, text |-> acc]
    ELSE IF pattern[i].kind = "lit"
         THEN vformat(pattern, kwargs, i + 1, Append(acc, pattern[i].val))
    ELSE IF pattern[i].val \notin DOMAIN kwargs
         THEN [error |-> Error("KeyError", pattern[i].val), text |-> <<>>]
    ELSE vformat(pattern, kwargs, i + 1, Append(acc, Str(kwargs[pattern[i].val])))

PromptTemplate_format_lenient(p, kwargs) ==
    vformat_lenient(p.template, kwargs, 1, <<>>)

PromptTemplate_format_first(p, kwargs) ==
    vformat_first(p.template, kwargs, 1, <<>>)

\* PromptTemplate.format(**kwargs)
PromptTemplate_format(p, kwargs) == vformat(p.template, kwargs, 1, <<>>)

-----------------------------------------------------------------------------
(* The notebook's patterns *)

\* cell 594a3cf3: template = """..."""
FeastTemplate ==
    << Lit("Given the driver's up to date stats, write them note relaying those stats to them.\nIf they have a conversation rate above .5, give them a compliment. Otherwise, make a silly joke about chickens at the end to make them feel better\n\nHere are the drivers stats:\nConversation rate: "),
       Field("conv_rate"),
       Lit("\nAcceptance rate: "),
       Field("acc_rate"),
       Lit("\nAverage Daily Trips: "),
       Field("avg_daily_trips"),
       Lit("\n\nYour response:") >>

\* cell 02a98fbc: template = """..."""
TectonTemplate ==
    << Lit("Given the vendor's up to date transaction stats, write them a note based on the following rules:\n\n1. If they had a transaction in the last day, write a short congratulations message on their recent sales\n2. If no transaction in the last day, but they had a transaction in the last 30 days, playfully encourage them to sell more.\n3. Always add a silly joke about chickens at the end\n\nHere are the vendor's stats:\nNumber of Transactions Last Day: "),
       Field("transaction_count_1d"),
       Lit("\nNumber of Transactions Last 30 Days: "),
       Field("transaction_count_30d"),
       Lit("\n\nYour response:") >>

\* cell 88253bcb: template = """..."""
FeatureformTemplate ==
    << Lit("Given the amount a user spends on average per transaction, let them know if they are a high roller. Otherwise, make a silly joke about chickens at the end to make them feel better\n\nHere are the user's stats:\nAverage Amount per Transaction: $"),
       Field("avg_transcation"),
       Lit("\n\nYour response:") >>

\* AzureMLFeatureStorePromptTemplate.__init__: template = """..."""
AzureMLTemplate ==
    << Lit("\n            "),
       Field("query"),
       Lit("\n            ###\n            account id = "),
       Field("account_id"),
       Lit("\n            account age = "),
       Field("account_age"),
       Lit("\n            account country = "),
       Field("account_country"),
       Lit("\n            payment rejects 1d per user = "),
       Field("payment_rejects_1d_per_user"),
       Lit("\n            ###\n            ") >>

\* AzureMLFeatureStorePromptTemplate.__init__: self.prompt
AzureML_prompt == from_template(AzureMLTemplate)

Adapters == {"Feast", "Tecton", "Featureform", "AzureML"}

\* the keyword each format() pops as the entity identifier
EntityKey(a) ==
    CASE a = "Feast" -> "driver_id"
      [] a = "Tecton" -> "user_id"
      [] a = "Featureform" -> "user_id"
      [] a = "AzureML" -> "account_id"

-----------------------------------------------------------------------------
(* Call frames *)

Callers == {"c1", "c2"}

IdleFrame ==
    [ adapter |-> "", pc |-> "idle",
      args |-> EmptyDict,        \* the keywords as the caller passed them
      kwargs |-> EmptyDict,      \* the frame's **kwargs dict
      locals |-> EmptyDict,      \* driver_id / user_id / account_id, query
      feature_vector |-> <<>>,   \* <<record>> once the lookup has returned
      lookups |-> 0,             \* lookups issued to the feature store
      lookup_error |-> NoError,  \* what the feature store raised, if it did
      formats |-> 0,             \* calls of PromptTemplate.format
      handed |-> <<>>,           \* <<mapping>> handed to PromptTemplate.format
      used |-> <<>>,             \* <<PromptTemplate>> delegated to
      result |-> <<>>,           \* the returned text (pc = "done")
      error |-> NoError ]        \* the raised exception (pc = "raised")

\* prompt_template.format(**kw): a fresh frame with its own kwargs dict
NewFrame(a, kw) ==
    [IdleFrame EXCEPT !.adapter = a, !.pc = "entry", !.args = kw, !.kwargs = kw]

InFlight(f) == f.pc \in {"entry", "lookup", "project", "delegate"}

\* a kwargs dict kept on the adapter instance, seen by every call on it
StoreFrame_shared(cs, c, f) ==
    [d \in DOMAIN cs |->
        IF d = c THEN f
        ELSE IF InFlight(cs[d]) /\ cs[d].adapter = f.adapter
             THEN [cs[d] EXCEPT !.kwargs = f.kwargs]
        ELSE cs[d]]

\* def format(self, **kwargs): kwargs and the locals belong to the one call
StoreFrame(cs, c, f) == [cs EXCEPT ![c] = f]

\* an exception leaves format(): nothing in the notebook catches it
Raise(f, err) == [f EXCEPT !.pc = "raised", !.error = err]

\* the value of an expression: an exception, or <<value>>
Value(v) == [error |-> NoError, val |-> <<v>>]
Raised(err) == [error |-> err, val |-> <<>>]

\* d[k]
GetItem(d, k) ==
    IF k \in DOMAIN d THEN Value(d[k]) ELSE Raised(Error("KeyError", k))

\* r[0] for r the value of d[k]
Index0(r) ==
    IF r.error # NoError THEN r
    ELSE IF Len(r.val[1]) = 0 THEN Raised(Error("IndexError", "0"))
    ELSE Value(r.val[1][1])

\* an assignment that is skipped when its right-hand side raises
Assign_skip(f, name, r) ==
    IF f.pc = "raised" THEN f
    ELSE IF r.error # NoError THEN f
    ELSE [f EXCEPT !.kwargs = SetItem(@, name, r.val[1])]

\* kwargs[name] = r, or the exception raised while evaluating r
Assign(f, name, r) ==
    IF f.pc = "raised" THEN f
    ELSE IF r.error # NoError THEN Raise(f, r.error)
    ELSE [f EXCEPT !.kwargs = SetItem(@, name, r.val[1])]

-----------------------------------------------------------------------------
(* The four format() methods, statement by statement *)

\* driver_id = kwargs.pop("driver_id")  /  user_id = kwargs.pop("user_id")
PopEntity(f, key) ==
    IF key \notin DOMAIN f.kwargs THEN Raise(f, Error("KeyError", key))
    ELSE [f EXCEPT !.locals = SetItem(@, key, f.kwargs[key]),
                   !.kwargs = Removed(@, key),
                   !.pc = "lookup"]

\* AzureML with `query = kwargs.pop("query")` unguarded
AzureML_entry_query_required(f) ==
    IF "account_id" \notin DOMAIN f.kwargs
    THEN Raise(f, Error("TypeError", "exceptions must derive from BaseException"))
    ELSE IF "query" \notin DOMAIN f.kwargs THEN Raise(f, Error("KeyError", "query"))
    ELSE [f EXCEPT !.locals = [account_id |-> f.kwargs["account_id"],
                               query |-> f.kwargs["query"]],
                   !.kwargs = Removed(Removed(@, "account_id"), "query"),
                   !.pc = "lookup"]

\* AzureMLFeatureStorePromptTemplate.format, up to the lookup:
\*   if "account_id" not in kwargs: raise "account_id needed ..."
\*   account_id = kwargs.pop("account_id"); query = ""
\*   if "query" in kwargs: query = kwargs.pop("query")
\* `raise <str>` is itself an error in Python 3: the interpreter raises
\* TypeError("exceptions must derive from BaseException") in its place.
AzureML_entry(f) ==
    IF "account_id" \notin DOMAIN f.kwargs
    THEN Raise(f, Error("TypeError", "exceptions must derive from BaseException"))
    ELSE LET k1 == Removed(f.kwargs, "account_id")
             query == IF "query" \in DOMAIN k1 THEN k1["query"] ELSE StrV("")
             k2 == IF "query" \in DOMAIN k1 THEN Removed(k1, "query") ELSE k1
         IN [f EXCEPT !.locals = [account_id |-> f.kwargs["account_id"],
                                  query |-> query],
                      !.kwargs = k2,
                      !.pc = "lookup"]

\* the statements of format() that precede the lookup
Entry(f) ==
    IF f.adapter = "AzureML" THEN AzureML_entry(f)
    ELSE PopEntity(f, EntityKey(f.adapter))

\* the lookup returned `rec`
LookupReturn(f, rec) ==
    [f EXCEPT !.feature_vector = <<rec>>, !.lookups = @ + 1, !.pc = "project"]

\* a lookup wrapped in `except: feature_vector = {}`
LookupRaise_swallowed(f, err) ==
    [f EXCEPT !.feature_vector = <<EmptyDict>>, !.lookups = @ + 1,
              !.lookup_error = err, !.pc = "project"]

\* a lookup wrapped in a retry loop
LookupRaise_retried(f, err) ==
    IF f.lookups = 0
    THEN [f EXCEPT !.lookups = @ + 1, !.lookup_error = err]
    ELSE Raise([f EXCEPT !.lookups = @ + 1, !.lookup_error = err], err)

\* the lookup raised `err`: store.get_online_features(...), feature_service
\* .get_online_features(...), client.features(...) and get_online_features(...)
\* are called bare, so the exception leaves format()
LookupRaise(f, err) ==
    Raise([f EXCEPT !.lookups = @ + 1, !.lookup_error = err], err)

\* FeastPromptTemplate.format: kwargs["conv_rate"] = feature_vector["conv_rate"][0] ...
Feast_project(f) ==
    LET feature_vector == f.feature_vector[1]
        s1 == Assign(f, "conv_rate", Index0(GetItem(feature_vector, "conv_rate")))
        s2 == Assign(s1, "acc_rate", Index0(GetItem(feature_vector, "acc_rate")))
    IN Assign(s2, "avg_daily_trips",
              Index0(GetItem(feature_vector, "avg_daily_trips")))

\* a projection that copies the 1-day count to the 30-day placeholder and back
Tecton_project_swapped(f) ==
    LET feature_vector == f.feature_vector[1]
        s1 == Assign(f, "transaction_count_30d",
                     GetItem(feature_vector,
                             "user_transaction_counts.transaction_count_1d_1d"))
    IN Assign(s1, "transaction_count_1d",
              GetItem(feature_vector,
                      "user_transaction_counts.transaction_count_30d_1d"))

\* TectonPromptTemplate.format: kwargs["transaction_count_1d"] = feature_vector[...] ...
Tecton_project(f) ==
    LET feature_vector == f.feature_vector[1]
        s1 == Assign(f, "transaction_count_1d",
                     GetItem(feature_vector,
                             "user_transaction_counts.transaction_count_1d_1d"))
    IN Assign(s1, "transaction_count_30d",
              GetItem(feature_vector,
                      "user_transaction_counts.transaction_count_30d_1d"))

\* FeatureformPromptTemplate.format: fpf is assigned and never read
Featureform_project(f) == f

\* AzureMLFeatureStorePromptTemplate.format: kwargs["query"] = query ...
AzureML_project(f) ==
    LET df == f.feature_vector[1]
        s1 == Assign(f, "query", Value(f.locals["query"]))
        s2 == Assign(s1, "account_id", Value(f.locals["account_id"]))
        s3 == Assign(s2, "account_age", Index0(GetItem(df, "accountAge")))
        s4 == Assign(s3, "account_country", Index0(GetItem(df, "accountCountry")))
    IN Assign(s4, "payment_rejects_1d_per_user",
              Index0(GetItem(df, "numPaymentRejects1dPerUser")))

\* the statements between the lookup and the return
Projected(f) ==
    LET g == CASE f.adapter = "Feast" -> Feast_project(f)
               [] f.adapter = "Tecton" -> Tecton_project(f)
               [] f.adapter = "Featureform" -> Featureform_project(f)
               [] f.adapter = "AzureML" -> AzureML_project(f)
    IN IF g.pc = "raised" THEN g ELSE [g EXCEPT !.pc = "delegate"]

\* a return that strips the text of its first and last chunk
Delegated_trimmed(f, p) ==
    IF p = <<>> THEN Raise(f, Error("NameError", "prompt"))
    ELSE LET r == PromptTemplate_format(p[1], f.kwargs)
             g == [f EXCEPT !.formats = @ + 1, !.handed = <<f.kwargs>>,
                            !.used = p]
         IN IF r.error # NoError THEN Raise(g, r.error)
            ELSE [g EXCEPT !.pc = "done",
                           !.result = SubSeq(r.text, 2, Len(r.text) - 1)]

\* return prompt.format(**kwargs)  /  return self.prompt.format(**kwargs)
\* p is <<>> when the name `prompt` is unbound, else <<the PromptTemplate>>
Delegated(f, p) ==
    IF p = <<>> THEN Raise(f, Error("NameError", "prompt"))
    ELSE LET r == PromptTemplate_format(p[1], f.kwargs)
             g == [f EXCEPT !.formats = @ + 1, !.handed = <<f.kwargs>>,
                            !.used = p]
         IN IF r.error # NoError THEN Raise(g, r.error)
            ELSE [g EXCEPT !.pc = "done", !.result = r.text]

\* the PromptTemplate a format() reaches: the module global `prompt` as bound
\* when the return statement runs, or the instance's own self.prompt
DelegateOf(a, global_prompt) ==
    IF a = "AzureML" THEN <<AzureML_prompt>> ELSE global_prompt

-----------------------------------------------------------------------------
(* What callers pass and what the feature stores answer *)

EntityId(a) ==
    CASE a = "Feast" -> IntV(1001)
      [] a = "Tecton" -> StrV("user_469998441571")
      [] a = "Featureform" -> StrV("C1410926")
      [] a = "AzureML" -> StrV("A1829581630230790")

\* fields a caller may pass besides the entity identifier: one named like a
\* looked-up placeholder, one no pattern mentions, and AzureML's query
ExtraNames(a) ==
    CASE a = "Feast" -> {"conv_rate", "tone"}
      [] a = "Tecton" -> {"transaction_count_1d", "tone"}
      [] a = "Featureform" -> {"avg_transcation", "tone"}
      [] a = "AzureML" -> {"query", "account_age", "tone"}

ExtraValue(n) ==
    CASE n = "query" -> StrV("write a small thank you note")
      [] n = "tone" -> StrV("formal")
      [] OTHER -> IntV(7)

CallerKwargs(a) ==
    { [n \in S |-> IF n = EntityKey(a) THEN EntityId(a) ELSE ExtraValue(n)] :
        S \in { T \in SUBSET (ExtraNames(a) \cup {EntityKey(a)}) :
                    Cardinality(T \ {EntityKey(a)}) <= MaxExtra } }

\* complete answers of each store (two, with different values)
CompleteRecords(a) ==
    CASE a = "Feast" ->
            { [conv_rate |-> <<FloatV(47)>>, acc_rate |-> <<FloatV(6)>>,
               avg_daily_trips |-> <<IntV(936)>>],
              [conv_rate |-> <<FloatV(50)>>, acc_rate |-> <<FloatV(90)>>,
               avg_daily_trips |-> <<IntV(12)>>] }
      [] a = "Tecton" ->
            { [n \in {"user_transaction_counts.transaction_count_1d_1d",
                      "user_transaction_counts.transaction_count_30d_1d"} |->
                 IF n = "user_transaction_counts.transaction_count_1d_1d"
                 THEN IntV(657) ELSE IntV(20326)],
              [n \in {"user_transaction_counts.transaction_count_1d_1d",
                      "user_transaction_counts.transaction_count_30d_1d"} |->
                 IF n = "user_transaction_counts.transaction_count_1d_1d"
                 THEN IntV(0) ELSE IntV(3)] }
      [] a = "Featureform" ->
            { [avg_transactions |-> <<FloatV(2500)>>],
              [avg_transactions |-> <<FloatV(319)>>] }
      [] a = "AzureML" ->
            { [accountAge |-> <<FloatV(56300)>>, accountCountry |-> <<StrV("GB")>>,
               numPaymentRejects1dPerUser |-> <<FloatV(1500)>>],
              [accountAge |-> <<FloatV(1250)>>, accountCountry |-> <<StrV("US")>>,
               numPaymentRejects1dPerUser |-> <<FloatV(0)>>] }

\* answers that lack one feature
IncompleteRecords(a) ==
    { Removed(r, k) : r \in CompleteRecords(a), k \in
        CASE a = "Feast" -> {"acc_rate"}
          [] a = "Tecton" -> {"user_transaction_counts.transaction_count_30d_1d"}
          [] a = "Featureform" -> {}
          [] a = "AzureML" -> {"accountCountry"} }

Records(a) == CompleteRecords(a) \cup IncompleteRecords(a)

\* what a feature store raises when it cannot answer
LookupErrors ==
    { Error("ConnectionError", "feature store unreachable"),
      Error("EntityNotFound", "no such entity") }

-----------------------------------------------------------------------------
(* Notebook cells *)

NoCallInFlight == \A c \in Callers : ~InFlight(calls[c])

UnchangedTest == UNCHANGED <<t_prompt, t_kwargs, t_out>>

\* a cell `template = """..."""; prompt = PromptTemplate.from_template(template)`
DefineTemplate(pattern) ==
    /\ NoCallInFlight
    /\ template' = <<pattern>>
    /\ prompt' = <<from_template(pattern)>>
    /\ UNCHANGED <<classes, calls>>
    /\ UnchangedTest

\* the pattern the notebook defines in the cell before each adapter's class
\* (for AzureML: inside __init__)
OwnTemplate(a) ==
    CASE a = "Feast" -> FeastTemplate
      [] a = "Tecton" -> TectonTemplate
      [] a = "Featureform" -> FeatureformTemplate
      [] a = "AzureML" -> AzureMLTemplate

\* a cell `class ...PromptTemplate(StringPromptTemplate): ...`; within a section
\* the cells run in the notebook's order, so the class cell of Feast, Tecton or
\* Featureform runs while `prompt` is bound by that section's template cell
\* (sections themselves run, and run again, in any order)
DefineAdapter(a) ==
    /\ NoCallInFlight
    /\ a = "AzureML" \/ prompt = <<from_template(OwnTemplate(a))>>
    /\ classes' = classes \cup {a}
    /\ UNCHANGED <<template, prompt, calls>>
    /\ UnchangedTest

DefineFeastTemplate == DefineTemplate(FeastTemplate)
DefineFeastAdapter == DefineAdapter("Feast")
DefineTectonTemplate == DefineTemplate(TectonTemplate)
DefineTectonAdapter == DefineAdapter("Tecton")
DefineFeatureformTemplate == DefineTemplate(FeatureformTemplate)
DefineFeatureformAdapter == DefineAdapter("Featureform")
DefineAzureMLAdapter == DefineAdapter("AzureML")

-----------------------------------------------------------------------------
(* A format() call, one statement group per step *)

\* <Adapter>PromptTemplate(...).format(**kw)
Call(c) ==
    /\ ~InFlight(calls[c])
    /\ \E a \in classes : \E kw \in CallerKwargs(a) :
          calls' = StoreFrame(calls, c, NewFrame(a, kw))
    /\ UNCHANGED <<template, prompt, classes>>
    /\ UnchangedTest

Pop(c) ==
    /\ calls[c].pc = "entry"
    /\ calls' = StoreFrame(calls, c, Entry(calls[c]))
    /\ UNCHANGED <<template, prompt, classes>>
    /\ UnchangedTest

LookupOk(c) ==
    /\ calls[c].pc = "lookup"
    /\ \E rec \in Records(calls[c].adapter) :
          calls' = StoreFrame(calls, c, LookupReturn(calls[c], rec))
    /\ UNCHANGED <<template, prompt, classes>>
    /\ UnchangedTest

LookupFail(c) ==
    /\ calls[c].pc = "lookup"
    /\ \E err \in LookupErrors :
          calls' = StoreFrame(calls, c, LookupRaise(calls[c], err))
    /\ UNCHANGED <<template, prompt, classes>>
    /\ UnchangedTest

Project(c) ==
    /\ calls[c].pc = "project"
    /\ calls' = StoreFrame(calls, c, Projected(calls[c]))
    /\ UNCHANGED <<template, prompt, classes>>
    /\ UnchangedTest

Delegate(c) ==
    /\ calls[c].pc = "delegate"
    /\ calls' = StoreFrame(calls, c,
                    Delegated(calls[c], DelegateOf(calls[c].adapter, prompt)))
    /\ UNCHANGED <<template, prompt, classes>>
    /\ UnchangedTest

Step(c) ==
    \/ Call(c)
    \/ Pop(c)
    \/ LookupOk(c)
    \/ LookupFail(c)
    \/ Project(c)
    \/ Delegate(c)

-----------------------------------------------------------------------------
(* Specifications *)

NoTest ==
    /\ t_prompt = from_template(<<>>)
    /\ t_kwargs = EmptyDict
    /\ t_out = [status |-> "new", error |-> NoError, text |-> <<>>]

\* a fresh kernel in which the set-up cells (imports, store, feature_service,
\* client) have run; the notebook is then driven by one synchronous caller
Init ==
    /\ template = <<>>
    /\ prompt = <<>>
    /\ classes = {}
    /\ calls = [c \in Callers |-> IdleFrame]
    /\ NoTest

Next ==
    \/ DefineFeastTemplate
    \/ DefineFeastAdapter
    \/ DefineTectonTemplate
    \/ DefineTectonAdapter
    \/ DefineFeatureformTemplate
    \/ DefineFeatureformAdapter
    \/ DefineAzureMLAdapter
    \/ Step("c1")

Spec == Init /\ [][Next]_vars

\* one template cell and one adapter cell have run; two callers then use that
\* adapter at once (threads started by one cell, so no other cell runs meanwhile)
InitConc ==
    /\ \E pattern \in {FeastTemplate, TectonTemplate, FeatureformTemplate} :
          /\ template = <<pattern>>
          /\ prompt = <<from_template(pattern)>>
    /\ \E a \in Adapters : classes = {a}
    /\ calls = [c \in Callers |-> IdleFrame]
    /\ NoTest

NextConc == \E c \in Callers : Step(c)

SpecConc == InitConc /\ [][NextConc]_vars

\* PromptTemplate.format on its own
TestPatterns ==
    UNION { [1..n -> {Lit("a"), Field("x"), Field("y")}] : n \in 0..MaxLen }

TestValues == {IntV(7), FloatV(50)}

TestKwargs ==
    UNION { [S -> TestValues] : S \in SUBSET {"x", "y", "z"} }

InitTemplate ==
    /\ template = <<>>
    /\ prompt = <<>>
    /\ classes = {}
    /\ calls = [c \in Callers |-> IdleFrame]
    /\ t_prompt \in {from_template(p) : p \in TestPatterns}
    /\ t_kwargs \in TestKwargs
    /\ t_out = [status |-> "new", error |-> NoError, text |-> <<>>]

TestFormat ==
    /\ t_out.status = "new"
    /\ LET r == PromptTemplate_format(t_prompt, t_kwargs)
       IN t_out' = [status |-> "called", error |-> r.error, text |-> r.text]
    /\ UNCHANGED <<template, prompt, classes, calls, t_prompt, t_kwargs>>

NextTemplate == TestFormat

SpecTemplate == InitTemplate /\ [][NextTemplate]_vars

-----------------------------------------------------------------------------
(* Properties of PromptTemplate.format (SpecTemplate) *)

\* the text str() gives for each value drawn by SpecTemplate
Rendering(v) ==
    CASE v = IntV(7) -> "7"
      [] v = FloatV(50) -> "0.5"

\* C1: when the mapping has a value for every placeholder of the template,
\* format succeeds and its text has, chunk for chunk, the pattern's literal text
\* unchanged and, at every occurrence of every placeholder, the text of the
\* value mapped to it.
C1_FormatSubstitutesEveryOccurrence ==
    (t_out.status = "called" /\ t_prompt.input_variables \subseteq DOMAIN t_kwargs)
    => /\ t_out.error = NoError
       /\ Len(t_out.text) = Len(t_prompt.template)
       /\ \A i \in DOMAIN t_prompt.template :
             t_out.text[i] =
                IF t_prompt.template[i].kind = "lit"
                THEN t_prompt.template[i].val
                ELSE Rendering(t_kwargs[t_prompt.template[i].val])

\* a placeholder occurring twice, next to literal text, formatted from a
\* mapping that also holds a key the pattern does not use
C1_Witness ==
    /\ t_out.status = "called"
    /\ t_out.error = NoError
    /\ t_prompt.template = <<Field("x"), Lit("a"), Field("x")>>
    /\ DOMAIN t_kwargs = {"x", "z"}
    /\ t_out.text = <<"0.5", "a", "0.5">>

\* C2: when the mapping lacks a placeholder of the template, format fails with
\* a KeyError naming a placeholder that has no value, and returns no text: not
\* even the chunks that precede the missing placeholder.
C2_MissingKeyFailsWithoutText ==
    (t_out.status = "called"
        /\ ~(t_prompt.input_variables \subseteq DOMAIN t_kwargs))
    => /\ t_out.error.type = "KeyError"
       /\ t_out.error.arg \in t_prompt.input_variables \ DOMAIN t_kwargs
       /\ t_out.text = <<>>

\* the missing placeholder comes after a literal and a placeholder that has a
\* value, so there was text to leave behind
C2_Witness ==
    /\ t_out.status = "called"
    /\ t_prompt.template = <<Lit("a"), Field("x"), Field("y")>>
    /\ DOMAIN t_kwargs = {"x"}
    /\ t_out.error = Error("KeyError", "y")
    /\ t_out.text = <<>>

-----------------------------------------------------------------------------
(* Properties of the adapters' format() (Spec, SpecConc) *)

Finished(f) == f.pc \in {"done", "raised"}

\* placeholder -> looked-up value, for a record that has every feature
FeatureValues(a, rec) ==
    CASE a = "Feast" ->
            [conv_rate |-> rec["conv_rate"][1], acc_rate |-> rec["acc_rate"][1],
             avg_daily_trips |-> rec["avg_daily_trips"][1]]
      [] a = "Tecton" ->
            [transaction_count_1d |->
                rec["user_transaction_counts.transaction_count_1d_1d"],
             transaction_count_30d |->
                rec["user_transaction_counts.transaction_count_30d_1d"]]
      [] a = "Featureform" -> EmptyDict
      [] a = "AzureML" ->
            [account_age |-> rec["accountAge"][1],
             account_country |-> rec["accountCountry"][1],
             payment_rejects_1d_per_user |-> rec["numPaymentRejects1dPerUser"][1]]

\* what the caller contributes to the merged mapping: its keywords without the
\* popped entity identifier; for AzureML its keywords with query defaulted to ""
CallerPart(f) ==
    IF f.adapter = "AzureML"
    THEN [n \in DOMAIN f.args \cup {"query"} |->
            IF n \in DOMAIN f.args THEN f.args[n] ELSE StrV("")]
    ELSE Removed(f.args, EntityKey(f.adapter))

Merge(extras, looked_up) ==
    [n \in DOMAIN extras \cup DOMAIN looked_up |->
        IF n \in DOMAIN looked_up THEN looked_up[n] ELSE extras[n]]

\* the error tells the caller that the entity identifier is missing
NamesMissingEntity(f) ==
    \/ f.error = Error("KeyError", EntityKey(f.adapter))
    \/ f.error.arg = "account_id needed to fetch details from feature store"

\* C3: a format() called without the entity identifier fails with an error that
\* reports the missing identifier, having issued no lookup and not having
\* called PromptTemplate.format.
C3_MissingEntityIdIsValidationError ==
    \A c \in Callers :
        LET f == calls[c]
        IN (f.pc \notin {"idle", "entry"}
                /\ EntityKey(f.adapter) \notin DOMAIN f.args)
           => /\ f.pc = "raised"
              /\ NamesMissingEntity(f)
              /\ f.lookups = 0
              /\ f.formats = 0

\* C4: PromptTemplate.format is called only in a call whose lookup returned; a
\* call whose lookup raised has failed, has not called PromptTemplate.format and
\* has no text.
C4_TemplateOnlyAfterSuccessfulLookup ==
    \A c \in Callers :
        LET f == calls[c]
        IN /\ f.formats > 0 =>
                (f.lookups > 0 /\ f.lookup_error = NoError
                    /\ f.feature_vector # <<>>)
           /\ f.lookup_error # NoError =>
                (f.pc = "raised" /\ f.formats = 0 /\ f.handed = <<>>
                    /\ f.result = <<>>)

\* a Featureform call, which reads nothing from the record, failed at its lookup
C4_Witness ==
    \E c \in Callers :
        /\ calls[c].adapter = "Featureform"
        /\ calls[c].args = [user_id |-> StrV("C1410926")]
        /\ calls[c].lookup_error = Error("ConnectionError", "feature store unreachable")
        /\ calls[c].pc = "raised"
        /\ prompt = <<from_template(FeatureformTemplate)>>

\* C5: a call that passes only the entity identifier and whose lookup returns a
\* complete record succeeds, and its text is the adapter's own pattern with each
\* looked-up value at the occurrences of its own placeholder.  (Stated for
\* the adapters that copy features into the mapping: Feast, Tecton, AzureML.)
C5_EntityIdAloneSuffices ==
    \A c \in Callers :
        LET f == calls[c]
        IN (Finished(f)
                /\ DOMAIN f.args = {EntityKey(f.adapter)}
                /\ f.feature_vector # <<>>
                /\ f.feature_vector[1] \in CompleteRecords(f.adapter)
                /\ f.adapter # "Featureform")
           => LET pattern == OwnTemplate(f.adapter)
                  fv == FeatureValues(f.adapter, f.feature_vector[1])
              IN /\ f.pc = "done"
                 /\ Len(f.result) = Len(pattern)
                 /\ \A i \in DOMAIN pattern :
                       (pattern[i].kind = "field" /\ pattern[i].val \in DOMAIN fv)
                       => f.result[i] = Str(fv[pattern[i].val])

C7_ReturnsTemplateResultUnchanged ==
    \A c \in Callers :
        LET f == calls[c]
        IN f.pc = "done" =>
            LET r == PromptTemplate_format(f.used[1],
                        Merge(CallerPart(f),
                              FeatureValues(f.adapter, f.feature_vector[1])))
            IN r.error = NoError /\ f.result = r.text

\* a Tecton call with an extra field returned the filled Tecton pattern
C7_Witness ==
    \E c \in Callers :
        /\ calls[c].adapter = "Tecton"
        /\ calls[c].pc = "done"
        /\ "tone" \in DOMAIN calls[c].args
        /\ calls[c].result[2] = "657"
        /\ calls[c].result[4] = "20326"
        /\ Len(calls[c].result) = 5

\* the frame a call ends in when it runs with no other call in flight, given
\* the same keywords, the same answer of the feature store and the same prompt
SoloRun(f) ==
    LET e == Entry(NewFrame(f.adapter, f.args))
    IN IF e.pc = "raised" THEN e
       ELSE IF f.lookup_error # NoError THEN LookupRaise(e, f.lookup_error)
       ELSE LET p == Projected(LookupReturn(e, f.feature_vector[1]))
            IN IF p.pc = "raised" THEN p
               ELSE Delegated(p, DelegateOf(f.adapter, prompt))

\* C8: with two callers interleaved, every finished call ends exactly as it
\* would alone (same text or same error), and a step of one call changes
\* nothing of the other call's frame.
C8_CallsAreIndependent ==
    /\ [](\A c \in Callers : Finished(calls[c]) => calls[c] = SoloRun(calls[c]))
    /\ [][\A c, d \in Callers :
            (c # d /\ calls'[c] # calls[c]) => calls'[d] = calls[d]]_vars

\* two calls on the Feast adapter are both at their return statement, holding
\* different looked-up values
C8_Witness ==
    /\ calls["c1"].adapter = "Feast"
    /\ calls["c2"].adapter = "Feast"
    /\ calls["c1"].pc = "delegate"
    /\ calls["c2"].pc = "delegate"
    /\ calls["c1"].kwargs["conv_rate"] # calls["c2"].kwargs["conv_rate"]
    /\ prompt = <<from_template(FeastTemplate)>>

\* C9: a call issues at most one lookup; when the lookup raises, the call fails
\* with that same error, no record stands in for the answer and kwargs holds
\* nothing but what the caller passed (no default for a feature),
\* PromptTemplate.format is not called and no text is returned.
C9_NoRetryNoFallback ==
    \A c \in Callers :
        LET f == calls[c]
        IN /\ f.lookups <= 1
           /\ f.lookup_error # NoError =>
                /\ f.pc = "raised"
                /\ f.error = f.lookup_error
                /\ f.feature_vector = <<>>
                /\ \A n \in DOMAIN f.kwargs :
                      n \in DOMAIN f.args /\ f.kwargs[n] = f.args[n]
                /\ f.formats = 0
                /\ f.result = <<>>

\* a Tecton call whose single lookup reported an unknown entity
C9_Witness ==
    \E c \in Callers :
        /\ calls[c].adapter = "Tecton"
        /\ calls[c].lookups = 1
        /\ calls[c].pc = "raised"
        /\ calls[c].error = Error("EntityNotFound", "no such entity")

\* C10: an AzureML call that passes account_id never fails before its lookup,
\* whatever else it passes or omits; with or without query, and a complete
\* record, it succeeds and its text is the AzureML pattern with query (or ""
\* when not passed), the account_id itself, and the looked-up accountAge,
\* accountCountry and numPaymentRejects1dPerUser in their placeholders.
C10_AzureMLQueryIsOptional ==
    \A c \in Callers :
        LET f == calls[c]
            reached == (f.adapter = "AzureML" /\ Finished(f)
                            /\ "account_id" \in DOMAIN f.args)
                       => f.lookups = 1
            filled == (f.adapter = "AzureML" /\ Finished(f)
                          /\ DOMAIN f.args \in {{"account_id"}, {"account_id", "query"}}
                          /\ f.feature_vector # <<>>
                          /\ f.feature_vector[1] \in CompleteRecords("AzureML"))
                      => (LET df == f.feature_vector[1]
                          IN /\ f.pc = "done"
                             /\ Len(f.result) = 11
                             /\ \A i \in {1, 3, 5, 7, 9, 11} :
                                   f.result[i] = AzureMLTemplate[i].val
                             /\ f.result[2] = (IF "query" \in DOMAIN f.args
                                               THEN f.args["query"].str ELSE "")
                             /\ f.result[4] = f.args["account_id"].str
                             /\ f.result[6] = Str(df["accountAge"][1])
                             /\ f.result[8] = Str(df["accountCountry"][1])
                             /\ f.result[10] = Str(df["numPaymentRejects1dPerUser"][1]))
        IN reached /\ filled

\* the notebook's own run: format(account_id="A1829581630230790") alone
C10_Witness ==
    \E c \in Callers :
        /\ calls[c].adapter = "AzureML"
        /\ calls[c].args = [account_id |-> StrV("A1829581630230790")]
        /\ calls[c].pc = "done"
        /\ calls[c].result[2] = ""
        /\ calls[c].result[4] = "A1829581630230790"
        /\ calls[c].result[6] = "563.0"
        /\ calls[c].result[8] = "GB"
        /\ calls[c].result[10] = "15.0"

\* C11: a Featureform call that passes only user_id and whose lookup returns
\* the user's average transaction amount succeeds, and its text is the
\* Featureform pattern with that amount in the pattern's placeholder.  (Stated
\* for calls made while `prompt` is bound to the Featureform pattern.)
C11_FeatureformMergesLookedUpValue ==
    \A c \in Callers :
        LET f == calls[c]
        IN (f.adapter = "Featureform" /\ Finished(f)
                /\ DOMAIN f.args = {"user_id"}
                /\ f.feature_vector # <<>>
                /\ f.used = <<from_template(FeatureformTemplate)>>)
           => /\ f.pc = "done"
              /\ Len(f.result) = Len(FeatureformTemplate)
              /\ f.result[2] = Str(f.feature_vector[1]["avg_transactions"][1])

\* the rename table of an adapter: vendor feature key, whether element 0 of the
\* stored value is taken, and the placeholder it is copied to
RenameTable(a) ==
    CASE a = "Feast" ->
            { [key |-> "conv_rate", index0 |-> TRUE, to |-> "conv_rate"],
              [key |-> "acc_rate", index0 |-> TRUE, to |-> "acc_rate"],
              [key |-> "avg_daily_trips", index0 |-> TRUE,
               to |-> "avg_daily_trips"] }
      [] a = "Tecton" ->
            { [key |-> "user_transaction_counts.transaction_count_1d_1d",
               index0 |-> FALSE, to |-> "transaction_count_1d"],
              [key |-> "user_transaction_counts.transaction_count_30d_1d",
               index0 |-> FALSE, to |-> "transaction_count_30d"] }
      [] a = "Featureform" -> {}
      [] a = "AzureML" ->
            { [key |-> "accountAge", index0 |-> TRUE, to |-> "account_age"],
              [key |-> "accountCountry", index0 |-> TRUE,
               to |-> "account_country"],
              [key |-> "numPaymentRejects1dPerUser", index0 |-> TRUE,
               to |-> "payment_rejects_1d_per_user"] }

\* the value a table entry reads from a record
Source(e, rec) == IF e.index0 THEN rec[e.key][1] ELSE rec[e.key]

MissingKeys(a, rec) == { e.key : e \in RenameTable(a) } \ DOMAIN rec

\* C13: a call whose lookup returned a record that lacks a feature key the
\* adapter projects has, once past its projection, failed with the KeyError of
\* a missing key, without calling PromptTemplate.format and without text.
C13_IncompleteRecordFailsInProjection ==
    \A c \in Callers :
        LET f == calls[c]
        IN (f.feature_vector # <<>>
                /\ MissingKeys(f.adapter, f.feature_vector[1]) # {}
                /\ f.pc # "project")
           => /\ f.pc = "raised"
              /\ f.error.type = "KeyError"
              /\ f.error.arg \in MissingKeys(f.adapter, f.feature_vector[1])
              /\ f.formats = 0
              /\ f.handed = <<>>
              /\ f.used = <<>>
              /\ f.result = <<>>

\* a Tecton call whose record has the 1-day count only failed on the 30-day
\* key after it had copied the 1-day count
C13_Witness ==
    \E c \in Callers :
        LET f == calls[c]
        IN /\ f.adapter = "Tecton"
           /\ f.feature_vector # <<>>
           /\ DOMAIN f.feature_vector[1]
                = {"user_transaction_counts.transaction_count_1d_1d"}
           /\ f.pc = "raised"
           /\ f.error = Error("KeyError",
                              "user_transaction_counts.transaction_count_30d_1d")
           /\ "transaction_count_1d" \in DOMAIN f.kwargs
           /\ f.formats = 0
           /\ f.result = <<>>

\* C14: whatever cells have run and whatever calls were made, a
\* FeastPromptTemplate.format that reaches its return formats the driver-stats
\* pattern and a TectonPromptTemplate.format the transaction-stats pattern: the
\* pattern bound when the adapter was defined.
C14_AdapterPatternIsFixed ==
    \A c \in Callers :
        LET f == calls[c]
        IN (f.adapter \in {"Feast", "Tecton"} /\ f.used # <<>>)
           => f.used = <<from_template(OwnTemplate(f.adapter))>>

====
